---- MODULE Spec2Model ----
(***************************************************************************)
(* Model of scripts/apply-agent-migration.py: a script that loads three    *)
(* credential constants and an SQL text, then prints manual instructions.  *)
(* Strings are modelled as sequences of words; a line feed inside a string *)
(* is the word "\n" and a non-ASCII character is the word "U+<code point>".*)
(* Two independent runs of the script are modelled side by side so that    *)
(* statements about "two runs" can be stated.                              *)
(***************************************************************************)
EXTENDS Integers, Sequences, FiniteSets, TLC

VARIABLES
  pc,            \* where each run stands in the script
  k,             \* the number of the next print call of apply_migration
  out,           \* the words written to standard output
  err,           \* the exceptions reported in a traceback on standard error
  exc,           \* the exception bound to e in the except clause
  raised,        \* the print calls that raised (0: the one of the handler)
  exitCode,      \* the exit status, empty while the process runs
  handlerFired,  \* the except clause was entered
  globals,       \* the module-level names bound so far
  reads,         \* the module-level names read so far, in order
  httpCalls,     \* the number of calls made to the HTTP client
  fs,            \* the file system
  fsAccess       \* the file operations performed

vars == <<pc, k, out, err, exc, raised, exitCode, handlerFired,
          globals, reads, httpCalls, fs, fsAccess>>

\* The process runs that are observed.
Runs == {"run1", "run2"}

\* The exceptions a call of print may raise (str(e) is the name itself).
Exceptions == {"UnicodeEncodeError", "BrokenPipeError"}

\* The path the printed text refers to.
SqlFilePath == "/tmp/agent_setup.sql"

RECURSIVE Repeat(_, _)
\* Python's s * n on strings.
Repeat(s, n) == IF n <= 0 THEN <<>> ELSE s \o Repeat(s, n - 1)

\* The literal assigned to PROJECT_ID.
PROJECT_ID == <<"sxrpbbvqypzmkqjfrgev">>

\* The literal assigned to API_KEY (its value is not reproduced here).
API_KEY == <<"<service-role-jwt>">>

\* The f-string f"https://{PROJECT_ID}.supabase.co" applied to a project id.
SupabaseUrlOf(projectId) == <<"https://">> \o projectId \o <<".supabase.co">>

\* The literal assigned to SQL, word by word, with ";" and "\n" as words of
\* their own: the three CREATE TABLE statements, ...
SqlTables ==
  << "\n", "--", "Create", "agent", "tables", "for", "demo", "mode", "(RLS",
     "disabled)", "\n", "\n", "CREATE", "TABLE", "IF", "NOT", "EXISTS",
     "agent_config", "(", "\n", "id", "UUID", "PRIMARY", "KEY", "DEFAULT",
     "gen_random_uuid(),", "\n", "counselor_id", "UUID", "NOT", "NULL,",
     "\n", "daily_digest_enabled", "BOOLEAN", "DEFAULT", "true,", "\n",
     "daily_digest_time", "TIME", "DEFAULT", "'08:00:00',", "\n",
     "deadline_monitor_enabled", "BOOLEAN", "DEFAULT", "true,", "\n",
     "deadline_monitor_interval_hours", "INTEGER", "DEFAULT", "6,", "\n",
     "risk_assessment_enabled", "BOOLEAN", "DEFAULT", "true,", "\n",
     "risk_assessment_interval_hours", "INTEGER", "DEFAULT", "24,", "\n",
     "max_runs_per_hour", "INTEGER", "DEFAULT", "5,", "\n",
     "max_insights_per_run", "INTEGER", "DEFAULT", "10,", "\n",
     "autonomous_actions_enabled", "BOOLEAN", "DEFAULT", "false,", "\n",
     "notification_preferences", "JSONB", "DEFAULT", "'{\"email\":",
     "false,", "\"in_app\":", "true}',", "\n", "created_at", "TIMESTAMP",
     "WITH", "TIME", "ZONE", "DEFAULT", "NOW(),", "\n", "updated_at",
     "TIMESTAMP", "WITH", "TIME", "ZONE", "DEFAULT", "NOW(),", "\n",
     "UNIQUE(counselor_id)", "\n", ")", ";", "\n", "\n", "CREATE", "TABLE",
     "IF", "NOT", "EXISTS", "agent_runs", "(", "\n", "id", "UUID", "PRIMARY",
     "KEY", "DEFAULT", "gen_random_uuid(),", "\n", "counselor_id", "UUID",
     "NOT", "NULL,", "\n", "run_type", "VARCHAR(50)", "NOT", "NULL,", "\n",
     "status", "VARCHAR(20)", "NOT", "NULL", "DEFAULT", "'running',", "\n",
     "insights_count", "INTEGER", "DEFAULT", "0,", "\n", "tools_used",
     "JSONB", "DEFAULT", "'[]',", "\n", "execution_time_ms", "INTEGER,",
     "\n", "error_message", "TEXT,", "\n", "started_at", "TIMESTAMP", "WITH",
     "TIME", "ZONE", "DEFAULT", "NOW(),", "\n", "completed_at", "TIMESTAMP",
     "WITH", "TIME", "ZONE,", "\n", "created_at", "TIMESTAMP", "WITH",
     "TIME", "ZONE", "DEFAULT", "NOW()", "\n", ")", ";", "\n", "\n",
     "CREATE", "TABLE", "IF", "NOT", "EXISTS", "agent_insights", "(", "\n",
     "id", "UUID", "PRIMARY", "KEY", "DEFAULT", "gen_random_uuid(),", "\n",
     "agent_run_id", "UUID,", "\n", "counselor_id", "UUID", "NOT", "NULL,",
     "\n", "category", "VARCHAR(50)", "NOT", "NULL,", "\n", "priority",
     "VARCHAR(10)", "NOT", "NULL", "CHECK", "(priority", "IN", "('high',",
     "'medium',", "'low')),", "\n", "finding", "TEXT", "NOT", "NULL,", "\n",
     "recommendation", "TEXT", "NOT", "NULL,", "\n", "status", "VARCHAR(20)",
     "DEFAULT", "'active',", "\n", "expires_at", "TIMESTAMP", "WITH", "TIME",
     "ZONE,", "\n", "dismissed_at", "TIMESTAMP", "WITH", "TIME", "ZONE,",
     "\n", "acted_on_at", "TIMESTAMP", "WITH", "TIME", "ZONE,", "\n",
     "created_at", "TIMESTAMP", "WITH", "TIME", "ZONE", "DEFAULT", "NOW()",
     "\n", ")", ";", "\n", "\n" >>

\* ... the three CREATE INDEX statements, ...
SqlIndexes ==
  << "--", "Add", "indexes", "\n", "CREATE", "INDEX", "IF", "NOT", "EXISTS",
     "idx_agent_runs_counselor_created", "ON", "agent_runs(counselor_id,",
     "created_at", "DESC)", ";", "\n", "CREATE", "INDEX", "IF", "NOT",
     "EXISTS", "idx_agent_runs_type_status", "ON", "agent_runs(run_type,",
     "status)", ";", "\n", "CREATE", "INDEX", "IF", "NOT", "EXISTS",
     "idx_agent_insights_counselor_active", "ON",
     "agent_insights(counselor_id,", "status,", "created_at", "DESC)",
     "WHERE", "status", "=", "'active'", ";", "\n", "\n" >>

\* ... and the three ALTER TABLE statements.
SqlRowSecurity ==
  << "--", "IMPORTANT:", "Disable", "RLS", "for", "demo", "mode", "\n",
     "ALTER", "TABLE", "agent_config", "DISABLE", "ROW", "LEVEL", "SECURITY",
     ";", "\n", "ALTER", "TABLE", "agent_runs", "DISABLE", "ROW", "LEVEL",
     "SECURITY", ";", "\n", "ALTER", "TABLE", "agent_insights", "DISABLE",
     "ROW", "LEVEL", "SECURITY", ";", "\n" >>

\* An SQL text that disables row level security before it adds the indexes.
SQL_rowSecurityFirst == SqlTables \o SqlRowSecurity \o SqlIndexes

SQL == SqlTables \o SqlIndexes \o SqlRowSecurity

\* The arguments of the print calls of apply_migration, in program order:
\* the opening banner and its separator line, ...
OpeningBanner ==
  << <<"U+1F680", "Applying", "Agent", "Dashboard", "Migration", "\n">>,
     Repeat(<<"=">>, 80) >>

\* ... the note and the request to use one of the methods, ...
Warning ==
  << <<"U+26A0", "U+FE0F", "Note:", "Direct", "SQL", "execution", "via",
       "REST", "API", "is", "not", "available">>,
     <<"\n", "U+1F4CC", "Please", "use", "one", "of", "these", "methods:",
       "\n">> >>

\* ... the dashboard steps, ...
Method1 ==
  << <<"Method", "1:", "Supabase", "Dashboard", "(Recommended)">>,
     <<"1.", "Go", "to:", "https://supabase.com/dashboard">>,
     <<"2.", "Select", "project:", "sxrpbbvqypzmkqjfrgev">>,
     <<"3.", "Click", "SQL", "Editor", "U+2192", "New", "Query">>,
     <<"4.", "Paste", "the", "SQL", "from", "/tmp/agent_setup.sql">>,
     <<"5.", "Click", "Run", "\n">> >>

\* ... the CLI steps, ...
Method2 ==
  << <<"Method", "2:", "Supabase", "CLI">>,
     <<"1.", "Install:", "npm", "install", "-g", "supabase">>,
     <<"2.", "Link", "project:", "supabase", "link", "--project-ref",
       "sxrpbbvqypzmkqjfrgev">>,
     <<"3.", "Push", "migrations:", "supabase", "db", "push", "\n">> >>

\* ... the psql steps, ...
Method3 ==
  << <<"Method", "3:", "psql", "(Direct", "PostgreSQL)">>,
     <<"1.", "Get", "connection", "string", "from", "Supabase", "Dashboard">>,
     <<"2.", "Run:", "psql", "<connection_string>", "<",
       "/tmp/agent_setup.sql", "\n">> >>

\* A closing block whose last line names the file as well.
Closing_pathInBoth ==
  << Repeat(<<"=">>, 80),
     <<"\n", "U+2705", "SQL", "file", "prepared", "at:",
       "/tmp/agent_setup.sql">>,
     <<"U+1F4CB", "Copy", "and", "paste", "/tmp/agent_setup.sql", "into",
       "Supabase", "Dashboard", "SQL", "Editor", "\n">> >>

\* ... and the closing separator line with the two lines after it.
Closing ==
  << Repeat(<<"=">>, 80),
     <<"\n", "U+2705", "SQL", "file", "prepared", "at:",
       "/tmp/agent_setup.sql">>,
     <<"U+1F4CB", "Copy", "and", "paste", "into", "Supabase", "Dashboard",
       "SQL", "Editor", "\n">> >>

\* A script that prints the CLI steps after the psql steps.
PrintSeq_methodsSwapped ==
  OpeningBanner \o Warning \o Method1 \o Method3 \o Method2 \o Closing

\* A script that prints no method block.
PrintSeq_noMethods == OpeningBanner \o Warning \o Closing

PrintSeq ==
  OpeningBanner \o Warning \o Method1 \o Method2 \o Method3 \o Closing

\* A try block that starts before the first print call.
InTry_fromFirstPrint(n) == n > 0

\* TRUE when the n-th print call lies inside the try block.
InTry(n) == n > 2

\* The f-string f"<cross mark> Error: {e}" of the exception handler.
ErrorLine(e) == <<"U+274C", "Error:", e>>

\* print(s): what a successful call appends to standard output.
PrintTo(stream, s) == stream \o s \o <<"\n">>

TypeOK ==
  /\ pc \in [Runs -> {"import", "project_id", "api_key", "supabase_url",
                      "sql", "main", "print", "except", "sysexit", "exited"}]
  /\ k \in [Runs -> 1..(Len(PrintSeq) + 1)]
  /\ \A r \in Runs : out[r] \in Seq(STRING) /\ err[r] \in Seq(Exceptions)
  /\ exc \in [Runs -> SUBSET Exceptions]
  /\ raised \in [Runs -> SUBSET (0..Len(PrintSeq))]
  /\ exitCode \in [Runs -> SUBSET {0, 1}]
  /\ handlerFired \in [Runs -> BOOLEAN]
  /\ \A r \in Runs : DOMAIN globals[r] \subseteq
                       {"PROJECT_ID", "API_KEY", "SUPABASE_URL", "SQL"}
  /\ reads \in [Runs -> Seq({"PROJECT_ID", "API_KEY", "SUPABASE_URL", "SQL"})]
  /\ httpCalls \in [Runs -> Nat]
  /\ fs \in [{SqlFilePath} -> {"absent", "present"}]
  /\ fsAccess \subseteq ({"open", "write", "exists"} \X {SqlFilePath})

Init ==
  /\ pc = [r \in Runs |-> "import"]
  /\ k = [r \in Runs |-> 1]
  /\ out = [r \in Runs |-> <<>>]
  /\ err = [r \in Runs |-> <<>>]
  /\ exc = [r \in Runs |-> {}]
  /\ raised = [r \in Runs |-> {}]
  /\ exitCode = [r \in Runs |-> {}]
  /\ handlerFired = [r \in Runs |-> FALSE]
  /\ globals = [r \in Runs |-> <<>>]
  /\ reads = [r \in Runs |-> <<>>]
  /\ httpCalls = [r \in Runs |-> 0]
  /\ fs \in [{SqlFilePath} -> {"absent", "present"}]
  /\ fsAccess = {}

\* import requests / json / sys: the modules are bound, nothing is called.
Import(r) ==
  /\ pc[r] = "import"
  /\ pc' = [pc EXCEPT ![r] = "project_id"]
  /\ UNCHANGED <<k, out, err, exc, raised, exitCode, handlerFired, globals, reads,
                 httpCalls, fs, fsAccess>>

DefineProjectId(r) ==
  /\ pc[r] = "project_id"
  /\ globals' = [globals EXCEPT ![r] = ("PROJECT_ID" :> PROJECT_ID) @@ @]
  /\ pc' = [pc EXCEPT ![r] = "api_key"]
  /\ UNCHANGED <<k, out, err, exc, raised, exitCode, handlerFired, reads,
                 httpCalls, fs, fsAccess>>

DefineApiKey(r) ==
  /\ pc[r] = "api_key"
  /\ globals' = [globals EXCEPT ![r] = ("API_KEY" :> API_KEY) @@ @]
  /\ pc' = [pc EXCEPT ![r] = "supabase_url"]
  /\ UNCHANGED <<k, out, err, exc, raised, exitCode, handlerFired, reads,
                 httpCalls, fs, fsAccess>>

\* SUPABASE_URL = f"https://{PROJECT_ID}.supabase.co" reads PROJECT_ID.
DefineSupabaseUrl(r) ==
  /\ pc[r] = "supabase_url"
  /\ reads' = [reads EXCEPT ![r] = Append(@, "PROJECT_ID")]
  /\ globals' = [globals EXCEPT ![r] =
        ("SUPABASE_URL" :> SupabaseUrlOf(globals[r]["PROJECT_ID"])) @@ @]
  /\ pc' = [pc EXCEPT ![r] = "sql"]
  /\ UNCHANGED <<k, out, err, exc, raised, exitCode, handlerFired,
                 httpCalls, fs, fsAccess>>

DefineSql(r) ==
  /\ pc[r] = "sql"
  /\ globals' = [globals EXCEPT ![r] = ("SQL" :> SQL) @@ @]
  /\ pc' = [pc EXCEPT ![r] = "main"]
  /\ UNCHANGED <<k, out, err, exc, raised, exitCode, handlerFired, reads,
                 httpCalls, fs, fsAccess>>

\* A script that posts the SQL text to the REST API before it prints.
Main_postsSql(r) ==
  /\ pc[r] = "main"
  /\ reads' = [reads EXCEPT ![r] = @ \o <<"SUPABASE_URL", "API_KEY", "SQL">>]
  /\ httpCalls' = [httpCalls EXCEPT ![r] = @ + 1]
  /\ pc' = [pc EXCEPT ![r] = "print"]
  /\ UNCHANGED <<k, out, err, exc, raised, exitCode, handlerFired, globals,
                 fs, fsAccess>>

\* if __name__ == "__main__": apply_migration() -- control enters the function.
Main(r) ==
  /\ pc[r] = "main"
  /\ pc' = [pc EXCEPT ![r] = "print"]
  /\ UNCHANGED <<k, out, err, exc, raised, exitCode, handlerFired, globals, reads,
                 httpCalls, fs, fsAccess>>

\* A print step that also writes the SQL text to the file it names.
PrintOk_writesFile(r) ==
  /\ pc[r] = "print"
  /\ k[r] <= Len(PrintSeq)
  /\ out' = [out EXCEPT ![r] = PrintTo(@, PrintSeq[k[r]])]
  /\ k' = [k EXCEPT ![r] = @ + 1]
  /\ IF SqlFilePath \in {PrintSeq[k[r]][i] : i \in 1..Len(PrintSeq[k[r]])}
       THEN /\ fs' = [fs EXCEPT ![SqlFilePath] = "present"]
            /\ fsAccess' = fsAccess \cup {<<"write", SqlFilePath>>}
       ELSE UNCHANGED <<fs, fsAccess>>
  /\ UNCHANGED <<pc, err, exc, raised, exitCode, handlerFired, globals, reads,
                 httpCalls>>

\* The k-th print call succeeds.
PrintOk(r) ==
  /\ pc[r] = "print"
  /\ k[r] <= Len(PrintSeq)
  /\ out' = [out EXCEPT ![r] = PrintTo(@, PrintSeq[k[r]])]
  /\ k' = [k EXCEPT ![r] = @ + 1]
  /\ UNCHANGED <<pc, err, exc, raised, exitCode, handlerFired, globals, reads,
                 httpCalls, fs, fsAccess>>

\* The k-th print call raises e: inside the try block control moves to the
\* except clause; outside it the exception leaves apply_migration and the
\* interpreter ends the process with a traceback and status 1.
PrintRaises(r, e) ==
  /\ pc[r] = "print"
  /\ k[r] <= Len(PrintSeq)
  /\ IF InTry(k[r])
       THEN /\ pc' = [pc EXCEPT ![r] = "except"]
            /\ exc' = [exc EXCEPT ![r] = {e}]
            /\ handlerFired' = [handlerFired EXCEPT ![r] = TRUE]
            /\ UNCHANGED <<err, exitCode>>
       ELSE /\ pc' = [pc EXCEPT ![r] = "exited"]
            /\ err' = [err EXCEPT ![r] = Append(@, e)]
            /\ exitCode' = [exitCode EXCEPT ![r] = {1}]
            /\ UNCHANGED <<exc, handlerFired>>
  /\ raised' = [raised EXCEPT ![r] = @ \cup {k[r]}]
  /\ UNCHANGED <<k, out, globals, reads, httpCalls, fs, fsAccess>>

\* except Exception as e: print(f"... Error: {e}") succeeds.
HandlerPrint(r) ==
  /\ pc[r] = "except"
  /\ \E e \in exc[r] : out' = [out EXCEPT ![r] = PrintTo(@, ErrorLine(e))]
  /\ pc' = [pc EXCEPT ![r] = "sysexit"]
  /\ UNCHANGED <<k, err, exc, raised, exitCode, handlerFired, globals, reads,
                 httpCalls, fs, fsAccess>>

\* The print of the except clause raises itself: nothing catches it.
HandlerPrintRaises(r, e) ==
  /\ pc[r] = "except"
  /\ pc' = [pc EXCEPT ![r] = "exited"]
  /\ err' = [err EXCEPT ![r] = Append(@, e)]
  /\ exitCode' = [exitCode EXCEPT ![r] = {1}]
  /\ raised' = [raised EXCEPT ![r] = @ \cup {0}]
  /\ UNCHANGED <<k, out, exc, handlerFired, globals, reads,
                 httpCalls, fs, fsAccess>>

\* An except clause that never gets to exit: the process stays where it is.
SysExit_hangs(r) ==
  /\ pc[r] = "sysexit"
  /\ UNCHANGED vars

\* sys.exit(1)
SysExit(r) ==
  /\ pc[r] = "sysexit"
  /\ pc' = [pc EXCEPT ![r] = "exited"]
  /\ exitCode' = [exitCode EXCEPT ![r] = {1}]
  /\ UNCHANGED <<k, out, err, exc, raised, handlerFired, globals, reads,
                 httpCalls, fs, fsAccess>>

\* apply_migration returns after its last print; the script ends with 0.
Return(r) ==
  /\ pc[r] = "print"
  /\ k[r] = Len(PrintSeq) + 1
  /\ pc' = [pc EXCEPT ![r] = "exited"]
  /\ exitCode' = [exitCode EXCEPT ![r] = {0}]
  /\ UNCHANGED <<k, out, err, exc, raised, handlerFired, globals, reads,
                 httpCalls, fs, fsAccess>>

Step(r) ==
  \/ Import(r)
  \/ DefineProjectId(r)
  \/ DefineApiKey(r)
  \/ DefineSupabaseUrl(r)
  \/ DefineSql(r)
  \/ Main(r)
  \/ PrintOk(r)
  \/ \E e \in Exceptions : PrintRaises(r, e)
  \/ HandlerPrint(r)
  \/ \E e \in Exceptions : HandlerPrintRaises(r, e)
  \/ SysExit(r)
  \/ Return(r)

Next == \E r \in Runs : Step(r)

Spec == Init /\ [][Next]_vars

\* A process that can take a step takes it: nothing suspends the script.
FairSpec == Spec /\ \A r \in Runs : WF_vars(Step(r))

(***************************************************************************)
(* Reading the text written to standard output.                            *)
(***************************************************************************)

\* The positions at which the words m occur in the stream.
Occurrences(stream, m) ==
  {i \in 1..(Len(stream) - Len(m) + 1) :
      stream[i] = m[1] /\ SubSeq(stream, i, i + Len(m) - 1) = m}

\* The least element of a set of positions, 0 when there is none.
First(S) == IF S = {} THEN 0 ELSE CHOOSE i \in S : \A j \in S : i <= j

\* The positions at which a line made of 80 "=" starts.
SeparatorStarts(stream) ==
  {i \in 1..(Len(stream) - 80) :
      /\ stream[i] = "="
      /\ (i = 1 \/ stream[i - 1] = "\n")
      /\ \A j \in i..(i + 79) : stream[j] = "="
      /\ stream[i + 80] = "\n"}

BannerWords == <<"Agent", "Dashboard", "Migration">>
WarningWords == <<"Direct", "SQL", "execution", "via", "REST", "API", "is",
                  "not", "available">>
PreparedWords == <<"SQL", "file", "prepared", "at:">>
CopyWords == <<"Copy", "and", "paste">>

\* Where each part of the output starts: banner, warning, the three method
\* blocks, the closing banner (the separator line after "Method 3"), and the
\* two confirmation lines; 0 for a part that is not in the stream.
PartStarts(stream) ==
  LET m3 == First(Occurrences(stream, <<"Method", "3:">>))
  IN  << First(Occurrences(stream, BannerWords)),
         First(Occurrences(stream, WarningWords)),
         First(Occurrences(stream, <<"Method", "1:">>)),
         First(Occurrences(stream, <<"Method", "2:">>)),
         m3,
         IF m3 = 0 THEN 0
                   ELSE First({i \in SeparatorStarts(stream) : i > m3}),
         First(Occurrences(stream, PreparedWords)),
         First(Occurrences(stream, CopyWords)) >>

\* The parts that are present are a leading segment of the list of parts and
\* stand in the stream in the order of the list.
PartsInOrder(stream) ==
  LET p == PartStarts(stream)
  IN  \A j \in 1..(Len(p) - 1) : p[j + 1] # 0 => (p[j] # 0 /\ p[j] < p[j + 1])

AllPartsPresent(stream) ==
  LET p == PartStarts(stream) IN \A j \in 1..Len(p) : p[j] # 0

\* No print call of the run has raised so far.
NoPrintRaised(r) == exc[r] = {} /\ err[r] = <<>>

\* C1: in a run in which no print raises, what has been written is at every
\* moment in the fixed order banner, warning, Method 1, Method 2, Method 3,
\* closing banner, confirmation lines; a run that ends with status 0 has
\* written all of them, and two such runs have written the same text.
C1_FixedOrderedOutput ==
  /\ \A r \in Runs : NoPrintRaised(r) => PartsInOrder(out[r])
  /\ \A r \in Runs : exitCode[r] = {0} => AllPartsPresent(out[r])
  /\ \A r1, r2 \in Runs :
        (exitCode[r1] = {0} /\ exitCode[r2] = {0}) => out[r1] = out[r2]

\* Both runs have ended with status 0 and written their output.
C1_Witness ==
  \A r \in Runs : exitCode[r] = {0} /\ NoPrintRaised(r) /\ out[r] # <<>>


\* The error line of the except clause stands in the stream.
ErrorLineWritten(stream) == Occurrences(stream, <<"U+274C", "Error:">>) # {}

\* C2: whenever a print call of the output sequence raises, the opening
\* banner and the first separator line included, the except clause is
\* entered, and the run ends with the error line written, exit status 1 and
\* no exception left unhandled.
C2_EveryPrintFailureHandled ==
  \A r \in Runs :
    (raised[r] \ {0}) # {} =>
      /\ handlerFired[r]
      /\ pc[r] = "exited" =>
           (ErrorLineWritten(out[r]) /\ exitCode[r] = {1} /\ err[r] = <<>>)

\* C3: a run ends with status 0 exactly when the whole output was written
\* and the except clause was not entered, with status 1 exactly when the
\* except clause was entered, and with no other status.
C3_ExitCodeIffHandler ==
  \A r \in Runs :
    pc[r] = "exited" =>
      /\ exitCode[r] \in {{0}, {1}}
      /\ exitCode[r] = {0} <=>
           (~handlerFired[r] /\ AllPartsPresent(out[r]) /\ out[r] # <<>>)
      /\ exitCode[r] = {1} <=> handlerFired[r]

\* C5: the output of a run that ended with status 0 contains the path
\* /tmp/agent_setup.sql at least twice.
C5_PathAtLeastTwice ==
  \A r \in Runs :
    exitCode[r] = {0} =>
      Cardinality(Occurrences(out[r], <<SqlFilePath>>)) >= 2

\* A run has ended with status 0 and its output names the path.
C5_Witness ==
  \E r \in Runs :
    exitCode[r] = {0} /\ Occurrences(out[r], <<SqlFilePath>>) # {}


RECURSIVE SplitLines(_)
\* The lines of a stream: the words between the "\n" words.
SplitLines(stream) ==
  LET ends == {i \in 1..Len(stream) : stream[i] = "\n"}
  IN  IF ends = {} THEN <<stream>>
      ELSE LET e == First(ends)
           IN  <<SubSeq(stream, 1, e - 1)>>
                 \o SplitLines(SubSeq(stream, e + 1, Len(stream)))

\* The lines written after the closing banner that are not empty.
ConfirmationLines(stream) ==
  LET c == PartStarts(stream)[6]
      rest == SplitLines(SubSeq(stream, c + 81, Len(stream)))
  IN  SelectSeq(rest, LAMBDA l : l # <<>>)

NamesPath(line) == \E i \in 1..Len(line) : line[i] = SqlFilePath

\* C6 as stated: a run that ended with status 0 has written exactly two
\* confirmation lines after the closing banner and both name the path
\* /tmp/agent_setup.sql.
C6_TwoConfirmationsBothNamePath ==
  \A r \in Runs :
    exitCode[r] = {0} =>
      LET c == ConfirmationLines(out[r])
      IN  Len(c) = 2 /\ NamesPath(c[1]) /\ NamesPath(c[2])

\* C6, amended: a run that ended with status 0 has written exactly two
\* confirmation lines after the closing banner; the first names the path
\* /tmp/agent_setup.sql and the second does not.
C6_TwoConfirmationsFirstNamesPath ==
  \A r \in Runs :
    exitCode[r] = {0} =>
      LET c == ConfirmationLines(out[r])
      IN  Len(c) = 2 /\ NamesPath(c[1]) /\ ~NamesPath(c[2])

\* A run has ended with status 0 with lines written after the closing banner.
C6_Witness ==
  \E r \in Runs :
    exitCode[r] = {0} /\ Len(ConfirmationLines(out[r])) > 0

\* C7: no step opens, writes or tests the file /tmp/agent_setup.sql, no step
\* changes the file system, and no step changes the SQL text once it is bound.
C7_NoFileSystemEffect ==
  [][ /\ fs' = fs
      /\ fsAccess' = {}
      /\ \A r \in Runs :
           "SQL" \in DOMAIN globals[r] =>
             ("SQL" \in DOMAIN globals'[r]
                /\ globals'[r]["SQL"] = globals[r]["SQL"]) ]_vars

\* A run has printed "SQL file prepared at: /tmp/agent_setup.sql" and ended
\* while the file does not exist.
C7_Witness ==
  \E r \in Runs :
    /\ exitCode[r] = {0}
    /\ Occurrences(out[r], PreparedWords \o <<SqlFilePath>>) # {}
    /\ fs[SqlFilePath] = "absent"


\* The state of a run: RUNNING until the process has exited.
Running(r) == pc[r] # "exited"
Success(r) == pc[r] = "exited" /\ 0 \in exitCode[r]
Failure(r) == pc[r] = "exited" /\ 1 \in exitCode[r]

\* C8: every run starts in RUNNING and eventually reaches SUCCESS or FAILURE,
\* never both; once it has, nothing more is written and its state never
\* changes again.
C8_RunningThenTerminal ==
  /\ \A r \in Runs : Running(r)
  /\ \A r \in Runs : <>(Success(r) \/ Failure(r))
  /\ [](\A r \in Runs : ~(Success(r) /\ Failure(r))
                        /\ (Running(r) \/ Success(r) \/ Failure(r)))
  /\ [][\A r \in Runs :
          ~Running(r) => /\ pc'[r] = pc[r]
                         /\ exitCode'[r] = exitCode[r]
                         /\ out'[r] = out[r]
                         /\ err'[r] = err[r]]_vars

\* One run has reached FAILURE and the other SUCCESS.
C8_Witness ==
  \E r1, r2 \in Runs : Failure(r1) /\ handlerFired[r1] /\ Success(r2)

(***************************************************************************)
(* Reading the SQL text as a sequence of statements.                       *)
(***************************************************************************)

\* A line without its "--" comment, which runs to the end of the line.
StripComment(line) ==
  LET c == First({i \in 1..Len(line) : line[i] = "--"})
  IN  IF c = 0 THEN line ELSE SubSeq(line, 1, c - 1)

RECURSIVE Flatten(_)
Flatten(ss) == IF ss = <<>> THEN <<>> ELSE Head(ss) \o Flatten(Tail(ss))

\* The text without its comments and without line feeds.
StripComments(text) ==
  LET ls == SplitLines(text)
  IN  Flatten([i \in 1..Len(ls) |-> StripComment(ls[i])])

RECURSIVE SplitStatements(_)
\* The statements of a comment-free text: the words before each ";"; words
\* after the last ";" form a last statement.
SplitStatements(text) ==
  LET semis == {i \in 1..Len(text) : text[i] = ";"}
  IN  IF semis = {} THEN (IF text = <<>> THEN <<>> ELSE <<text>>)
      ELSE LET e == First(semis)
           IN  <<SubSeq(text, 1, e - 1)>>
                 \o SplitStatements(SubSeq(text, e + 1, Len(text)))

Statements(text) == SplitStatements(StripComments(text))

StartsWith(s, prefix) ==
  Len(s) >= Len(prefix) /\ SubSeq(s, 1, Len(prefix)) = prefix

AgentTables == <<"agent_config", "agent_runs", "agent_insights">>

\* The text is the nine statements of the migration, in their order.
IsMigration(text) ==
  LET s == Statements(text)
  IN  /\ Len(s) = 9
      /\ \A i \in 1..3 :
           /\ StartsWith(s[i], <<"CREATE", "TABLE", "IF", "NOT", "EXISTS",
                                 AgentTables[i], "(">>)
           /\ StartsWith(s[i + 3],
                         <<"CREATE", "INDEX", "IF", "NOT", "EXISTS">>)
           /\ s[i + 6] = <<"ALTER", "TABLE", AgentTables[i], "DISABLE",
                           "ROW", "LEVEL", "SECURITY">>

\* C9: the SQL text a run binds is nine statements: CREATE TABLE IF NOT
\* EXISTS for agent_config, agent_runs and agent_insights, then three CREATE
\* INDEX IF NOT EXISTS, then ALTER TABLE ... DISABLE ROW LEVEL SECURITY for
\* each of the three tables, and nothing else.
C9_SqlStatements ==
  [][\A r \in Runs :
       ("SQL" \notin DOMAIN globals[r] /\ "SQL" \in DOMAIN globals'[r]) =>
          IsMigration(globals'[r]["SQL"])]_vars

\* The SQL text is bound in a run that went on to print.
C9_Witness ==
  \E r \in Runs : "SQL" \in DOMAIN globals[r] /\ out[r] # <<>>


RECURSIVE WrittenBefore(_)
\* What standard output holds when the print calls before the n-th succeeded.
WrittenBefore(n) ==
  IF n <= 1 THEN <<>> ELSE PrintTo(WrittenBefore(n - 1), PrintSeq[n - 1])

\* The output of a run in which every print call succeeds.
FullOutput == WrittenBefore(Len(PrintSeq) + 1)

IsStrictPrefix(a, b) == Len(a) < Len(b) /\ SubSeq(b, 1, Len(a)) = a

\* The opening banner line followed by the first separator line.
BannerAndSeparator ==
  PrintTo(PrintTo(<<>>, OpeningBanner[1]), OpeningBanner[2])

\* C10 as stated: when a print call inside the try block raised, the run
\* ends with status 1 and standard output is exactly what was written before
\* that call, a strict prefix of the full output that starts with the banner
\* and the separator line, followed by the error line; the "SQL file
\* prepared" line is not in it.
C10_PrefixThenErrorLine ==
  \A r \in Runs :
    (pc[r] = "exited" /\ handlerFired[r]) =>
      \E n \in raised[r] \ {0}, e \in exc[r] :
        /\ exitCode[r] = {1}
        /\ out[r] = PrintTo(WrittenBefore(n), ErrorLine(e))
        /\ IsStrictPrefix(WrittenBefore(n), FullOutput)
        /\ StartsWith(out[r], BannerAndSeparator)
        /\ Occurrences(out[r], PreparedWords) = {}

\* C10, amended: when a print call inside the try block raised, the run ends
\* with status 1 and standard output is exactly what was written before that
\* call, a strict prefix of the full output that starts with the banner and
\* the separator line, followed by the error line if the print of the except
\* clause succeeded and by nothing if it raised as well; the "SQL file
\* prepared" line is in the output of a run that ends with status 1 exactly
\* when the call that raised is the last print of the sequence.
C10_PrefixThenErrorLineIfPrinted ==
  \A r \in Runs :
    /\ (pc[r] = "exited" /\ handlerFired[r]) =>
         \E n \in raised[r] \ {0}, e \in exc[r] :
           /\ raised[r] \ {0} = {n}
           /\ exitCode[r] = {1}
           /\ out[r] = IF 0 \in raised[r]
                         THEN WrittenBefore(n)
                         ELSE PrintTo(WrittenBefore(n), ErrorLine(e))
           /\ IsStrictPrefix(WrittenBefore(n), FullOutput)
           /\ StartsWith(out[r], BannerAndSeparator)
    /\ exitCode[r] = {1} =>
         (Occurrences(out[r], PreparedWords) # {}
            <=> Len(PrintSeq) \in raised[r])

\* A run ended with status 1 after its last print call raised, with the "SQL
\* file prepared" line and the error line both written.
C10_Witness ==
  \E r \in Runs :
    /\ exitCode[r] = {1} /\ handlerFired[r]
    /\ raised[r] = {Len(PrintSeq)}
    /\ Occurrences(out[r], PreparedWords) # {}
    /\ ErrorLineWritten(out[r])

====
